---------------------------- MODULE Spec2Model ----------------------------
(***************************************************************************)
(* A model of SlimTerm's terminal state engine (src/slimterm.c): the       *)
(* escape parser term_putc, the primary/alternate grids, and the           *)
(* scrollback store.  Bytes are modelled by their ASCII codes.  The C      *)
(* globals are gathered in one record s (see State); every C function is   *)
(* an operator from such a record to the record after the call.            *)
(*                                                                         *)
(* The storage capacities MAX_ROWS, MAX_COLS and SCROLLBACK_SIZE are       *)
(* scaled down from 128, 256 and 1000.  An array access outside its        *)
(* capacity is undefined behaviour in C: the model records it in the ghost *)
(* flag ub and takes no further step, since no outcome can be assumed.     *)
(* The input alphabet never contains the NUL byte.                         *)
(*                                                                         *)
(* Around the engine the model has the processes of run(): the child on    *)
(* the slave side of the PTY, the kernel's hang-up and SIGCHLD, the signal *)
(* handler, and the X events xevent() handles.  MOUSE_SCROLL_LINES is      *)
(* scaled down from 3 with the scrollback capacity, so that a wheel step   *)
(* can land inside the scrollback as well as beyond it.                    *)
(***************************************************************************)
EXTENDS Integers, Sequences, FiniteSets, TLC

\* ---- capacities (slimterm.h), scaled down ----
MAX_COLS == 10
MAX_ROWS == 5
SCROLLBACK_SIZE == 2
\* ---- slimterm.c ----
BUFSIZE == 1024
\* ---- config.h ----
DEFAULT_FG == 7
DEFAULT_BG == 0
BORDER_WIDTH == 20
\* scaled down
MOUSE_SCROLL_LINES == 2

\* ---- bounds of the exploration ----
MaxBytes == 5      \* bytes fed in a free run
MaxGridRows == 2   \* largest grid height of a free run
MaxGridCols == 2   \* largest grid width of a free run

defaultfg == DEFAULT_FG
defaultbg == DEFAULT_BG

\* ASCII codes of the bytes the model names.
Ord(ch) ==
  CASE ch = "ESC" -> 27 [] ch = "LF" -> 10 [] ch = "CR" -> 13 [] ch = "BS" -> 8
    [] ch = "TAB" -> 9 [] ch = " " -> 32 [] ch = "!" -> 33 [] ch = "+" -> 43
    [] ch = "-" -> 45 [] ch = "0" -> 48 [] ch = "1" -> 49 [] ch = "2" -> 50
    [] ch = "3" -> 51 [] ch = "4" -> 52 [] ch = "5" -> 53 [] ch = "7" -> 55
    [] ch = "8" -> 56 [] ch = "9" -> 57 [] ch = ";" -> 59 [] ch = "=" -> 61
    [] ch = "?" -> 63 [] ch = "c" -> 99 [] ch = "n" -> 110
    [] ch = "@" -> 64 [] ch = "A" -> 65 [] ch = "B" -> 66 [] ch = "C" -> 67
    [] ch = "D" -> 68 [] ch = "H" -> 72 [] ch = "J" -> 74 [] ch = "K" -> 75
    [] ch = "N" -> 78 [] ch = "R" -> 82 [] ch = "X" -> 88 [] ch = "Y" -> 89
    [] ch = "Z" -> 90 [] ch = "[" -> 91 [] ch = "a" -> 97 [] ch = "b" -> 98
    [] ch = "h" -> 104 [] ch = "l" -> 108 [] ch = "m" -> 109 [] ch = "r" -> 114
    [] ch = "z" -> 122 [] ch = "~" -> 126

\* A C string literal, as the sequence of its bytes.
Str(names) == [i \in 1..Len(names) |-> Ord(names[i])]

Cols == 0..(MAX_COLS - 1)
Rows == 0..(MAX_ROWS - 1)

\* memset(p, b, n) over an int array stores the byte b in each of the four
\* bytes of every int.
MemsetInt(b) == b * 16843009

\* ---- C library: isspace, isdigit, atoi, sscanf ----
IsSpace(b) == b = 32 \/ b \in 9..13
IsDigit(b) == b \in 48..57

RECURSIVE SkipSpace(_)
SkipSpace(str) ==
  IF str # <<>> /\ IsSpace(Head(str)) THEN SkipSpace(Tail(str)) ELSE str

RECURSIVE ScanDigits(_, _)
ScanDigits(str, acc) ==
  IF str # <<>> /\ IsDigit(Head(str))
  THEN ScanDigits(Tail(str), acc * 10 + (Head(str) - 48))
  ELSE [val |-> acc, rest |-> str]

\* One %d conversion: leading white space, an optional sign, decimal digits.
ScanInt(str) ==
  LET t == SkipSpace(str)
      signed == t # <<>> /\ Head(t) \in {43, 45}
      u == IF signed THEN Tail(t) ELSE t
  IN IF u # <<>> /\ IsDigit(Head(u))
     THEN LET d == ScanDigits(u, 0)
          IN [ok |-> TRUE,
              val |-> IF signed /\ Head(t) = 45 THEN 0 - d.val ELSE d.val,
              rest |-> d.rest]
     ELSE [ok |-> FALSE, val |-> 0, rest |-> str]

atoi(str) == ScanInt(str).val

\* sscanf(str, "%d", &a) with a preset to a0.
sscanf1(str, a0) == LET x == ScanInt(str) IN IF x.ok THEN x.val ELSE a0

\* sscanf(str, "%d;%d", &a, &b) with a, b preset to a0, b0.
sscanf2(str, a0, b0) ==
  LET x == ScanInt(str)
  IN IF ~x.ok THEN <<a0, b0>>
     ELSE IF x.rest # <<>> /\ Head(x.rest) = 59
          THEN LET y == ScanInt(Tail(x.rest))
               IN <<x.val, IF y.ok THEN y.val ELSE b0>>
          ELSE <<x.val, b0>>

VARIABLES term, xw, escape_buf, in_escape, current_fg, current_bg,
          saved_row, saved_col, wrap, mouse_enabled, mouse_mode,
          ub, pushed, fed, script,
          child, sigchld, pty, exit_status

\* The processes around the engine: the child (running, or terminated with
\* a wait status), the pending SIGCHLD, the PTY (bytes the child wrote and the
\* emulator has not read, the hang-up of the slave side, the bytes ttywrite
\* wrote), and the emulator's exit status (-1 while it runs).
procvars == <<child, sigchld, pty, exit_status>>

vars == <<term, xw, escape_buf, in_escape, current_fg, current_bg,
          saved_row, saved_col, wrap, mouse_enabled, mouse_mode,
          ub, pushed, fed, script, child, sigchld, pty, exit_status>>

\* The C globals as one record.  escape_buf holds the escape_len live bytes
\* of the array (escape_len = Len(escape_buf)); pushed is a ghost: the rows
\* handed to term_add_scrollback so far, oldest first.
State ==
  [term |-> term, xw |-> xw, escape_buf |-> escape_buf, in_escape |-> in_escape,
   current_fg |-> current_fg, current_bg |-> current_bg,
   saved_row |-> saved_row, saved_col |-> saved_col, wrap |-> wrap,
   mouse_enabled |-> mouse_enabled, mouse_mode |-> mouse_mode,
   ub |-> ub, pushed |-> pushed]

Apply(n) ==
  /\ term' = n.term /\ xw' = n.xw /\ escape_buf' = n.escape_buf
  /\ in_escape' = n.in_escape
  /\ current_fg' = n.current_fg /\ current_bg' = n.current_bg
  /\ saved_row' = n.saved_row /\ saved_col' = n.saved_col /\ wrap' = n.wrap
  /\ mouse_enabled' = n.mouse_enabled /\ mouse_mode' = n.mouse_mode
  /\ ub' = n.ub /\ pushed' = n.pushed

Undefined(s) == [s EXCEPT !.ub = TRUE]

\* term_init, after xinit set xw.row to rows.
term_init(rows) ==
  [data |-> [r \in Rows |-> [c \in Cols |-> 0]],
   fg |-> [r \in Rows |-> [c \in Cols |-> MemsetInt(defaultfg)]],
   bg |-> [r \in Rows |-> [c \in Cols |-> MemsetInt(defaultbg)]],
   alt_data |-> [r \in Rows |-> [c \in Cols |-> 0]],
   alt_fg |-> [r \in Rows |-> [c \in Cols |-> MemsetInt(defaultfg)]],
   alt_bg |-> [r \in Rows |-> [c \in Cols |-> MemsetInt(defaultbg)]],
   scrollback |-> [r \in 0..(SCROLLBACK_SIZE - 1) |-> [c \in Cols |-> 0]],
   scrollback_fg |-> [r \in 0..(SCROLLBACK_SIZE - 1) |->
                        [c \in Cols |-> MemsetInt(defaultfg)]],
   scrollback_bg |-> [r \in 0..(SCROLLBACK_SIZE - 1) |->
                        [c \in Cols |-> MemsetInt(defaultbg)]],
   row |-> 0, col |-> 0, alt_row |-> 0, alt_col |-> 0,
   scroll_top |-> 0, scroll_bottom |-> rows - 1,
   scrollback_pos |-> 0, scrollback_len |-> 0, scroll_offset |-> 0,
   use_alt_buffer |-> 0,
   sel_start_row |-> -1, sel_start_col |-> -1,
   sel_end_row |-> -1, sel_end_col |-> -1, selecting |-> 0]

\* ---- the active buffer: the data/fg/bg/row/col pointers the code selects
\* ---- with term.use_alt_buffer
Alt(s) == s.term.use_alt_buffer # 0
ActData(s) == IF Alt(s) THEN s.term.alt_data ELSE s.term.data
ActFg(s) == IF Alt(s) THEN s.term.alt_fg ELSE s.term.fg
ActBg(s) == IF Alt(s) THEN s.term.alt_bg ELSE s.term.bg
ActRow(s) == IF Alt(s) THEN s.term.alt_row ELSE s.term.row
ActCol(s) == IF Alt(s) THEN s.term.alt_col ELSE s.term.col

SetRow(s, r) ==
  IF Alt(s) THEN [s EXCEPT !.term.alt_row = r] ELSE [s EXCEPT !.term.row = r]
SetCol(s, c) ==
  IF Alt(s) THEN [s EXCEPT !.term.alt_col = c] ELSE [s EXCEPT !.term.col = c]

\* data[r][c] = ch; fg[r][c] = f; bg[r][c] = b  on the buffer chosen by alt.
PutCell(s, alt, r, c, ch, f, b) ==
  IF r \notin Rows \/ c \notin Cols THEN Undefined(s)
  ELSE IF alt
       THEN [s EXCEPT !.term.alt_data[r][c] = ch, !.term.alt_fg[r][c] = f,
                      !.term.alt_bg[r][c] = b]
       ELSE [s EXCEPT !.term.data[r][c] = ch, !.term.fg[r][c] = f,
                      !.term.bg[r][c] = b]

\* Cells lo..hi of row r of the buffer chosen by alt set to blank/default.
ClearSpan(s, alt, r, lo, hi) ==
  IF lo > hi THEN s
  ELSE IF r \notin Rows \/ lo \notin Cols \/ hi \notin Cols THEN Undefined(s)
  ELSE LET d(old) == [c \in Cols |-> IF c \in lo..hi THEN 0 ELSE old[c]]
           f(old) == [c \in Cols |-> IF c \in lo..hi THEN defaultfg ELSE old[c]]
           b(old) == [c \in Cols |-> IF c \in lo..hi THEN defaultbg ELSE old[c]]
       IN IF alt
          THEN [s EXCEPT !.term.alt_data[r] = d(@), !.term.alt_fg[r] = f(@),
                         !.term.alt_bg[r] = b(@)]
          ELSE [s EXCEPT !.term.data[r] = d(@), !.term.fg[r] = f(@),
                         !.term.bg[r] = b(@)]

term_clear_line(s, r, alt) == ClearSpan(s, alt, r, 0, MAX_COLS - 1)

\* for (r = lo; r <= hi; r++) term_clear_line(r, ...)
RECURSIVE ClearLines(_, _, _, _)
ClearLines(s, alt, lo, hi) ==
  IF lo > hi \/ s.ub THEN s
  ELSE ClearLines(term_clear_line(s, lo, alt), alt, lo + 1, hi)


\* for (c = col; c < xw.col; c++) clear cell  -- on the active buffer
term_clear_to_eol(s) == ClearSpan(s, Alt(s), ActRow(s), ActCol(s), s.xw.col - 1)

term_clear_below(s) ==
  LET row == ActRow(s)
  IN ClearLines(term_clear_to_eol(s), Alt(s), row + 1, s.xw.row - 1)

term_clear_above(s) ==
  LET row == ActRow(s)
      col == ActCol(s)
  IN ClearLines(ClearSpan(s, Alt(s), row, 0, col), Alt(s), 0, row - 1)

\* One stored line: its characters and colours.
Line(d, f, b) == [data |-> d, fg |-> f, bg |-> b]

\* Variant of term_add_scrollback that, once full, overwrites the last slot
\* without shifting the older rows up.
term_add_scrollback_noshift(s, r) ==
  LET t == s.term
      full == ~(t.scrollback_len < SCROLLBACK_SIZE)
      len1 == IF full THEN t.scrollback_len ELSE t.scrollback_len + 1
      pos == IF full THEN SCROLLBACK_SIZE - 1 ELSE t.scrollback_pos
  IN IF r \notin Rows
     THEN Undefined([s EXCEPT !.term.scrollback_len = len1])
     ELSE [s EXCEPT !.term.scrollback_len = len1,
                    !.term.scrollback[pos] = t.data[r],
                    !.term.scrollback_fg[pos] = t.fg[r],
                    !.term.scrollback_bg[pos] = t.bg[r],
                    !.term.scrollback_pos = (pos + 1) % SCROLLBACK_SIZE,
                    !.pushed = Append(@, Line(t.data[r], t.fg[r], t.bg[r]))]

\* Variant of term_add_scrollback that, once full, shifts the rows but does
\* not move scrollback_pos to the last slot before it stores the row.
term_add_scrollback_keep_pos(s, r) ==
  LET t == s.term
      full == ~(t.scrollback_len < SCROLLBACK_SIZE)
      len1 == IF full THEN t.scrollback_len ELSE t.scrollback_len + 1
      shift(a) == [i \in 0..(SCROLLBACK_SIZE - 1) |->
                     IF i < SCROLLBACK_SIZE - 1 THEN a[i + 1] ELSE a[i]]
      sb == IF full THEN shift(t.scrollback) ELSE t.scrollback
      sbf == IF full THEN shift(t.scrollback_fg) ELSE t.scrollback_fg
      sbb == IF full THEN shift(t.scrollback_bg) ELSE t.scrollback_bg
      pos == t.scrollback_pos
  IN IF r \notin Rows
     THEN Undefined([s EXCEPT !.term.scrollback_len = len1])
     ELSE [s EXCEPT !.term.scrollback_len = len1,
                    !.term.scrollback = [sb EXCEPT ![pos] = t.data[r]],
                    !.term.scrollback_fg = [sbf EXCEPT ![pos] = t.fg[r]],
                    !.term.scrollback_bg = [sbb EXCEPT ![pos] = t.bg[r]],
                    !.term.scrollback_pos = (pos + 1) % SCROLLBACK_SIZE,
                    !.pushed = Append(@, Line(t.data[r], t.fg[r], t.bg[r]))]

term_add_scrollback(s, r) ==
  LET t == s.term
      full == ~(t.scrollback_len < SCROLLBACK_SIZE)
      len1 == IF full THEN t.scrollback_len ELSE t.scrollback_len + 1
      \* for (i = 0; i < SCROLLBACK_SIZE - 1; i++) scrollback[i] = scrollback[i + 1]
      shift(a) == [i \in 0..(SCROLLBACK_SIZE - 1) |->
                     IF i < SCROLLBACK_SIZE - 1 THEN a[i + 1] ELSE a[i]]
      sb == IF full THEN shift(t.scrollback) ELSE t.scrollback
      sbf == IF full THEN shift(t.scrollback_fg) ELSE t.scrollback_fg
      sbb == IF full THEN shift(t.scrollback_bg) ELSE t.scrollback_bg
      pos == IF full THEN SCROLLBACK_SIZE - 1 ELSE t.scrollback_pos
  IN IF r \notin Rows
     THEN Undefined([s EXCEPT !.term.scrollback_len = len1])
     ELSE [s EXCEPT !.term.scrollback_len = len1,
                    !.term.scrollback = [sb EXCEPT ![pos] = t.data[r]],
                    !.term.scrollback_fg = [sbf EXCEPT ![pos] = t.fg[r]],
                    !.term.scrollback_bg = [sbb EXCEPT ![pos] = t.bg[r]],
                    !.term.scrollback_pos = (pos + 1) % SCROLLBACK_SIZE,
                    !.pushed = Append(@, Line(t.data[r], t.fg[r], t.bg[r]))]

\* for (r = top; r < bottom; r++) row[r] = row[r + 1]
ShiftRows(a, top, bottom) ==
  [r \in Rows |-> IF r >= top /\ r < bottom THEN a[r + 1] ELSE a[r]]

term_scroll_up(s) ==
  LET top == s.term.scroll_top
      bottom == s.term.scroll_bottom
      bad == top < bottom /\ (top \notin Rows \/ bottom \notin Rows)
  IN IF s.term.use_alt_buffer # 0
     THEN IF bad THEN Undefined(s)
          ELSE term_clear_line(
                 [s EXCEPT !.term.alt_data = ShiftRows(@, top, bottom),
                           !.term.alt_fg = ShiftRows(@, top, bottom),
                           !.term.alt_bg = ShiftRows(@, top, bottom)],
                 bottom, TRUE)
     ELSE LET s1 == term_add_scrollback(s, top)
          IN IF bad THEN Undefined(s1)
             ELSE term_clear_line(
                    [s1 EXCEPT !.term.data = ShiftRows(@, top, bottom),
                               !.term.fg = ShiftRows(@, top, bottom),
                               !.term.bg = ShiftRows(@, top, bottom)],
                    bottom, FALSE)

\* Variant of NewLine that scrolls as soon as the cursor reaches scroll_bottom
\* (>= for >).
NewLine_scroll_early(s) ==
  LET s1 == SetCol(SetRow(s, ActRow(s) + 1), 0)
  IN IF ActRow(s1) >= s1.term.scroll_bottom
     THEN LET s2 == term_scroll_up(s1) IN SetRow(s2, s2.term.scroll_bottom)
     ELSE s1

\* (*row_ptr)++; *col_ptr = 0; if (*row_ptr > scroll_bottom) { scroll; clamp }
NewLine(s) ==
  LET s1 == SetCol(SetRow(s, ActRow(s) + 1), 0)
  IN IF ActRow(s1) > s1.term.scroll_bottom
     THEN LET s2 == term_scroll_up(s1) IN SetRow(s2, s2.term.scroll_bottom)
     ELSE s1

\* Variant of PutGround that wraps only once the cursor is past the line end
\* (> for >=).
PutGround_wrap_late(s, c) ==
  IF c = 10 THEN NewLine(s)
  ELSE IF c = 13 THEN SetCol(s, 0)
  ELSE IF c = 8
       THEN IF ActCol(s) > 0
            THEN LET s1 == SetCol(s, ActCol(s) - 1)
                 IN PutCell(s1, Alt(s1), ActRow(s1), ActCol(s1), 32,
                            defaultfg, defaultbg)
            ELSE s
  ELSE IF c >= 32 /\ c <= 126
       THEN IF ActRow(s) < s.xw.row /\ ActCol(s) < s.xw.col
            THEN LET s1 == PutCell(s, Alt(s), ActRow(s), ActCol(s), c,
                                   s.current_fg, s.current_bg)
                     s2 == SetCol(s1, ActCol(s1) + 1)
                 IN IF ActCol(s2) > s2.xw.col /\ s2.wrap # 0
                    THEN NewLine(s2)
                    ELSE s2
            ELSE s
  ELSE s

\* term_putc outside an escape sequence, for a byte other than ESC.
PutGround(s, c) ==
  IF c = 10 THEN NewLine(s)
  ELSE IF c = 13 THEN SetCol(s, 0)
  ELSE IF c = 8
       THEN IF ActCol(s) > 0
            THEN LET s1 == SetCol(s, ActCol(s) - 1)
                 IN PutCell(s1, Alt(s1), ActRow(s1), ActCol(s1), 32,
                            defaultfg, defaultbg)
            ELSE s
  ELSE IF c >= 32 /\ c <= 126
       THEN IF ActRow(s) < s.xw.row /\ ActCol(s) < s.xw.col
            THEN LET s1 == PutCell(s, Alt(s), ActRow(s), ActCol(s), c,
                                   s.current_fg, s.current_bg)
                     s2 == SetCol(s1, ActCol(s1) + 1)
                 IN IF ActCol(s2) >= s2.xw.col /\ s2.wrap # 0
                    THEN NewLine(s2)
                    ELSE s2
            ELSE s
  ELSE s


\* ---- the escape dispatch of term_putc ----

\* strcmp(escape_buf, lit) == 0, lit given by the names of its bytes
StrEq(buf, lit) == buf = Str(lit)

Home(s) == SetCol(SetRow(s, 0), 0)

\* if (v < 0) v = 0; if (v >= n) v = n - 1;
Clamp(v, n) == LET w == IF v < 0 THEN 0 ELSE v IN IF w >= n THEN n - 1 ELSE w

\* The SGR loop: one code per iteration, ptr then moved past the next ';'.
RECURSIVE SkipToSemi(_)
SkipToSemi(ptr) ==
  IF ptr # <<>> /\ Head(ptr) # 59 THEN SkipToSemi(Tail(ptr)) ELSE ptr

SgrCode(s, code) ==
  IF code = 0 THEN [s EXCEPT !.current_fg = defaultfg, !.current_bg = defaultbg]
  ELSE IF code >= 30 /\ code <= 37 THEN [s EXCEPT !.current_fg = code - 30]
  ELSE IF code >= 40 /\ code <= 47 THEN [s EXCEPT !.current_bg = code - 40]
  ELSE IF code >= 90 /\ code <= 97 THEN [s EXCEPT !.current_fg = (code - 90) + 8]
  ELSE IF code >= 100 /\ code <= 107 THEN [s EXCEPT !.current_bg = (code - 100) + 8]
  ELSE s

RECURSIVE SgrLoop(_, _)
SgrLoop(s, ptr) ==
  IF ptr = <<>> THEN s
  ELSE LET s1 == SgrCode(s, sscanf1(ptr, 0))
           p1 == SkipToSemi(ptr)
           p2 == IF p1 # <<>> /\ Head(p1) = 59 THEN Tail(p1) ELSE p1
       IN SgrLoop(s1, p2)

\* ESC ... r
SetScrollRegion(s, arg) ==
  LET tb == sscanf2(arg, 1, s.xw.row)
      top == tb[1] - 1
      bottom == tb[2] - 1
  IN [s EXCEPT !.term.scroll_top = IF top < 0 THEN 0 ELSE top,
               !.term.scroll_bottom =
                  IF bottom >= s.xw.row THEN s.xw.row - 1 ELSE bottom]

\* ESC ... @
InsertBlanks(s, arg) ==
  LET n0 == atoi(arg)
      n == IF n0 <= 0 THEN 1 ELSE n0
      alt == Alt(s)
      row == ActRow(s)
      col == ActCol(s)
      last == s.xw.col - 1
      moves == last >= col + n
      \* for (c = xw.col - 1; c >= col + n; c--) cell[row][c] = cell[row][c - n]
      sh(a) == [c \in Cols |-> IF c >= col + n /\ c <= last THEN a[c - n] ELSE a[c]]
      s1 == IF ~moves THEN s
            ELSE IF row \notin Rows \/ last \notin Cols \/ col \notin Cols
                 THEN Undefined(s)
            ELSE IF alt
                 THEN [s EXCEPT !.term.alt_data[row] = sh(@),
                                !.term.alt_fg[row] = sh(@),
                                !.term.alt_bg[row] = sh(@)]
                 ELSE [s EXCEPT !.term.data[row] = sh(@), !.term.fg[row] = sh(@),
                                !.term.bg[row] = sh(@)]
      hi == IF col + n < s.xw.col THEN col + n - 1 ELSE s.xw.col - 1
  IN IF s1.ub THEN s1 ELSE ClearSpan(s1, alt, row, col, hi)

\* The branch taken when escape_buf[1] is a digit.
Numeric(s, buf) ==
  LET final == buf[Len(buf)]
      arg == SubSeq(buf, 3, Len(buf))
      n == atoi(arg)
      rc == sscanf2(arg, 1, 1)
  IN IF final = Ord("C")
     THEN LET v == ActCol(s) + n
          IN SetCol(s, IF v >= s.xw.col THEN s.xw.col - 1 ELSE v)
     ELSE IF final = Ord("A")
     THEN LET v == ActRow(s) - n IN SetRow(s, IF v < 0 THEN 0 ELSE v)
     ELSE IF final = Ord("B")
     THEN LET v == ActRow(s) + n
          IN SetRow(s, IF v >= s.xw.row THEN s.xw.row - 1 ELSE v)
     ELSE IF final = Ord("D")
     THEN LET v == ActCol(s) - n IN SetCol(s, IF v < 0 THEN 0 ELSE v)
     ELSE IF final = Ord("H")
     THEN SetCol(SetRow(s, Clamp(rc[1] - 1, s.xw.row)), Clamp(rc[2] - 1, s.xw.col))
     ELSE IF final = Ord("m") THEN SgrLoop(s, arg)
     ELSE IF final = Ord("r") THEN SetScrollRegion(s, arg)
     ELSE IF final = Ord("@") THEN InsertBlanks(s, arg)
     ELSE s

MouseMode(s, on, mode) == [s EXCEPT !.mouse_enabled = on, !.mouse_mode = mode]

\* The if / else-if chain run on a complete escape_buf (its ESC included).
Dispatch(s, buf) ==
  IF StrEq(buf, <<"[", "2", "J">>)
  THEN Home(ClearLines(s, Alt(s), 0, s.xw.row - 1))
  ELSE IF StrEq(buf, <<"[", "H">>) THEN Home(s)
  ELSE IF StrEq(buf, <<"[", "K">>) THEN term_clear_to_eol(s)
  ELSE IF StrEq(buf, <<"[", "J">>) THEN term_clear_below(s)
  ELSE IF StrEq(buf, <<"[", "1", "J">>) THEN term_clear_above(s)
  ELSE IF StrEq(buf, <<"[", "?", "7", "h">>) THEN [s EXCEPT !.wrap = 1]
  ELSE IF StrEq(buf, <<"[", "?", "7", "l">>) THEN [s EXCEPT !.wrap = 0]
  ELSE IF StrEq(buf, <<"[", "?", "2", "5", "h">>) THEN s
  ELSE IF StrEq(buf, <<"[", "?", "2", "5", "l">>) THEN s
  ELSE IF StrEq(buf, <<"[", "?", "1", "0", "0", "0", "h">>) THEN MouseMode(s, 1, 1000)
  ELSE IF StrEq(buf, <<"[", "?", "1", "0", "0", "0", "l">>) THEN MouseMode(s, 0, 0)
  ELSE IF StrEq(buf, <<"[", "?", "1", "0", "0", "2", "h">>) THEN MouseMode(s, 1, 1002)
  ELSE IF StrEq(buf, <<"[", "?", "1", "0", "0", "2", "l">>) THEN MouseMode(s, 0, 0)
  ELSE IF StrEq(buf, <<"[", "?", "1", "0", "0", "3", "h">>) THEN MouseMode(s, 1, 1003)
  ELSE IF StrEq(buf, <<"[", "?", "1", "0", "0", "3", "l">>) THEN MouseMode(s, 0, 0)
  ELSE IF StrEq(buf, <<"[", "?", "1", "0", "4", "9", "h">>)
  THEN LET s1 == [s EXCEPT !.term.use_alt_buffer = 1]
       IN [ClearLines(s1, TRUE, 0, s.xw.row - 1)
             EXCEPT !.term.alt_row = 0, !.term.alt_col = 0]
  ELSE IF StrEq(buf, <<"[", "?", "1", "0", "4", "9", "l">>)
  THEN [s EXCEPT !.term.use_alt_buffer = 0, !.term.row = 0, !.term.col = 0]
  ELSE IF StrEq(buf, <<"[", "?", "1", "h">>) THEN s
  ELSE IF StrEq(buf, <<"[", "?", "1", "l">>) THEN s
  ELSE IF StrEq(buf, <<"7">>)
  THEN [s EXCEPT !.saved_row = ActRow(s), !.saved_col = ActCol(s)]
  ELSE IF StrEq(buf, <<"8">>)
  THEN SetCol(SetRow(s, Clamp(s.saved_row, s.xw.row)), Clamp(s.saved_col, s.xw.col))
  ELSE IF IsDigit(buf[2]) THEN Numeric(s, buf)
  ELSE s

\* The bytes that end an escape sequence.
IsFinal(c) == (c >= 65 /\ c <= 90) \/ (c >= 97 /\ c <= 122) \/ c = 63 \/ c = 64

\* term_putc while in_escape is set.
PutEscape(s, c) ==
  LET buf == Append(s.escape_buf, c)
  IN IF Len(s.escape_buf) >= BUFSIZE THEN Undefined(s)
     ELSE IF IsFinal(c)
          THEN IF Len(buf) >= BUFSIZE THEN Undefined(s)
               ELSE Dispatch([s EXCEPT !.in_escape = 0, !.escape_buf = <<>>], buf)
          ELSE [s EXCEPT !.escape_buf = buf]

term_putc(s, c) ==
  IF s.in_escape # 0 THEN PutEscape(s, c)
  ELSE IF c = 27 THEN [s EXCEPT !.in_escape = 1, !.escape_buf = <<27>>]
  ELSE PutGround(s, c)


\* ---- the machine ----

\* The metrics xinit reads from the font.
FontWidth == 8
FontHeight == 16

\* The globals after xinit, term_init and main's ttyresize on a rows x cols
\* grid.  xw.clipboard is the CLIPBOARD property of xw.win, empty until
\* copy_selection sets it.
InitState(rows, cols) ==
  [term |-> term_init(rows),
   xw |-> [row |-> rows, col |-> cols, border |-> BORDER_WIDTH,
           font_width |-> FontWidth, font_height |-> FontHeight,
           w |-> cols * FontWidth + 2 * BORDER_WIDTH,
           h |-> rows * FontHeight + 2 * BORDER_WIDTH,
           clipboard |-> <<>>],
   escape_buf |-> <<>>, in_escape |-> 0,
   current_fg |-> DEFAULT_FG, current_bg |-> DEFAULT_BG,
   saved_row |-> 0, saved_col |-> 0, wrap |-> 1,
   mouse_enabled |-> 0, mouse_mode |-> 0, ub |-> FALSE, pushed |-> <<>>]

Start(rows, cols, bytes) ==
  LET s == InitState(rows, cols)
  IN /\ term = s.term /\ xw = s.xw /\ escape_buf = s.escape_buf
     /\ in_escape = s.in_escape
     /\ current_fg = s.current_fg /\ current_bg = s.current_bg
     /\ saved_row = s.saved_row /\ saved_col = s.saved_col /\ wrap = s.wrap
     /\ mouse_enabled = s.mouse_enabled /\ mouse_mode = s.mouse_mode
     /\ ub = s.ub /\ pushed = s.pushed
     /\ fed = <<>> /\ script = bytes
     /\ child = [state |-> "running", kind |-> "none", n |-> 0]
     /\ sigchld = FALSE
     /\ pty = [unread |-> <<>>, hup |-> FALSE, written |-> <<>>]
     /\ exit_status = -1

\* ttyread's loop, for (i = 0; i < n; i++) term_putc(buf[i]), as a fold.
RECURSIVE Run(_, _)
Run(s, bytes) ==
  IF bytes = <<>> \/ s.ub THEN s ELSE Run(term_putc(s, Head(bytes)), Tail(bytes))

\* The bytes a free-running child writes.
Alphabet == {Ord("ESC"), Ord("1"), Ord("-"), Ord("B"), Ord("r"), Ord("LF"), Ord("a")}

Init == \E rows \in 1..MaxGridRows, cols \in 1..MaxGridCols : Start(rows, cols, <<>>)

\* ttyread handing one byte of the child's output to term_putc.  fed is a
\* ghost: the bytes processed so far.
ttyread(c) ==
  /\ ~ub
  /\ script = <<>>
  /\ Len(fed) < MaxBytes
  /\ Apply(term_putc(State, c))
  /\ fed' = Append(fed, c)
  /\ UNCHANGED script
  /\ UNCHANGED procvars

Next == \E c \in Alphabet : ttyread(c)

Spec == Init /\ [][Next]_vars


\* ---- scripted children: a child that writes one fixed byte string ----

AltOn == Str(<<"ESC", "[", "?", "1", "0", "4", "9", "h">>)
AltOff == Str(<<"ESC", "[", "?", "1", "0", "4", "9", "l">>)
EraseAll == Str(<<"ESC", "[", "2", "J">>)
CursorHome == Str(<<"ESC", "[", "H">>)
LeadIns == {<<>>, Str(<<"a">>), Str(<<"a", "b">>), Str(<<"a", "LF", "b">>),
            Str(<<"a", "LF", "b", "LF">>)}

\* ESC [ n X for the cursor keys: the parameter strings and their values.
MoveParams == {[text |-> <<>>, n |-> 1], [text |-> Str(<<"1">>), n |-> 1],
               [text |-> Str(<<"2">>), n |-> 2],
               [text |-> Str(<<"9", "9", "9">>), n |-> 999]}
MoveFinals == {Ord("A"), Ord("B"), Ord("C"), Ord("D")}
MoveSeq(p, f) == <<27, 91>> \o p.text \o <<f>>

\* ESC [ code m followed by a printable byte: the code strings and the
\* colours they select.
SgrParams == {[text |-> Str(<<"3", "1">>), fg |-> 1, bg |-> DEFAULT_BG],
              [text |-> Str(<<"4", "2">>), fg |-> DEFAULT_FG, bg |-> 2],
              [text |-> Str(<<"9", "5">>), fg |-> 13, bg |-> DEFAULT_BG],
              [text |-> Str(<<"1", "0", "4">>), fg |-> DEFAULT_FG, bg |-> 12]}
SgrSeq(p) == <<27, 91>> \o p.text \o <<Ord("m")>>
SgrScenario == SgrSeq([text |-> Str(<<"3", "1">>)]) \o Str(<<"R">>)
                 \o Str(<<"ESC", "[", "0", "m", "N">>)

RegionSeq == Str(<<"ESC", "[", "2", ";", "4", "r">>)
RegionText == Str(<<"A", "LF", "B", "LF", "C", "LF", "D", "LF">>)

\* ESC [ ? n h / l for the DEC private modes: the parameter and final bytes,
\* and the wrap, mouse_enabled and mouse_mode they select (-1: left as is).
DecModes ==
  {[text |-> Str(<<"7", "h">>), wrap |-> 1, enabled |-> -1, mode |-> -1],
   [text |-> Str(<<"7", "l">>), wrap |-> 0, enabled |-> -1, mode |-> -1],
   [text |-> Str(<<"1", "0", "0", "0", "h">>), wrap |-> -1, enabled |-> 1, mode |-> 1000],
   [text |-> Str(<<"1", "0", "0", "2", "h">>), wrap |-> -1, enabled |-> 1, mode |-> 1002],
   [text |-> Str(<<"1", "0", "0", "3", "h">>), wrap |-> -1, enabled |-> 1, mode |-> 1003],
   [text |-> Str(<<"1", "0", "0", "0", "l">>), wrap |-> -1, enabled |-> 0, mode |-> 0],
   [text |-> Str(<<"1", "0", "0", "2", "l">>), wrap |-> -1, enabled |-> 0, mode |-> 0],
   [text |-> Str(<<"1", "0", "0", "3", "l">>), wrap |-> -1, enabled |-> 0, mode |-> 0]}
DecSeq(m) == Str(<<"ESC", "[", "?">>) \o m.text
DecLeadIns == {<<>>, Str(<<"a">>)}

\* ESC 7 / ESC 8: save and restore the cursor.
SaveCursor == Str(<<"ESC", "7">>)
RestoreCursor == Str(<<"ESC", "8">>)
SaveRestoreText == SaveCursor \o Str(<<"A", "B", "C">>) \o RestoreCursor
                     \o Str(<<"X", "Y">>)

\* A save in each buffer at a different position, then a restore in the
\* buffer the first save was made in.
SavePrimaryFirst == Str(<<"a">>) \o SaveCursor \o AltOn \o Str(<<"b", "c">>)
                      \o SaveCursor \o AltOff \o RestoreCursor
SaveAlternateFirst == AltOn \o Str(<<"a">>) \o SaveCursor \o AltOff
                        \o Str(<<"b", "c">>) \o SaveCursor \o AltOn
                        \o RestoreCursor
SgrAcrossSwitch == Str(<<"ESC", "[", "3", "1", "m">>) \o AltOn \o AltOff

\* Escape sequences the dispatch does not implement, and text that follows.
UnknownSeqs == {Str(<<"ESC", "=">>), Str(<<"ESC", "c">>),
                Str(<<"ESC", "[", "5", "n">>), Str(<<"ESC", "[", "5", "~">>)}
FollowTexts == {Str(<<"a">>), Str(<<"1", "a">>), Str(<<"a", "LF", "b">>)}

Scenario(rows, cols, bytes) == [rows |-> rows, cols |-> cols, bytes |-> bytes]

AltScenarios ==
  {Scenario(3, 8, pre \o AltOn \o Str(<<"Y">>) \o AltOff) :
     pre \in {Str(<<"X">>), Str(<<"X", "CR">>)}}
EraseScenarios ==
  {Scenario(3, 8, pre \o EraseAll \o CursorHome) : pre \in LeadIns \ {<<>>}}
MoveScenarios ==
  {Scenario(3, 8, pre \o MoveSeq(p, f)) :
     pre \in LeadIns, p \in MoveParams, f \in MoveFinals}
SgrScenarios ==
  {Scenario(3, 8, SgrScenario)}
    \cup {Scenario(3, 8, SgrSeq(p) \o Str(<<"R">>)) : p \in SgrParams}
RegionScenarios == {Scenario(5, 10, RegionSeq \o RegionText)}
DecScenarios ==
  {Scenario(3, 8, pre \o DecSeq(m)) : pre \in DecLeadIns, m \in DecModes}

SaveScenarios ==
  {Scenario(3, 8, b) : b \in {SaveRestoreText, SavePrimaryFirst,
                              SaveAlternateFirst, SgrAcrossSwitch}}
TwiceScenarios ==
  {Scenario(3, 8, pre \o AltOn \o AltOn) : pre \in LeadIns}
UnknownScenarios ==
  {Scenario(3, 8, u \o tx) : u \in UnknownSeqs, tx \in FollowTexts}

\* An escape sequence that never ends: ESC and then BUFSIZE digits.
OverlongSeq == Str(<<"ESC">>) \o [i \in 1..BUFSIZE |-> Ord("1")]
OverlongScenarios == {Scenario(3, 8, OverlongSeq)}

\* A scroll region set below the last row, then a line of text and a line feed.
BelowGridRegion == Str(<<"ESC", "1", "3", "r", "LF", "a", "LF">>)
BelowGridScenarios == {Scenario(2, 2, BelowGridRegion)}

\* ESC [ n @ after a line of text and a carriage return.
InsertText == Str(<<"a", "b", "CR">>)
InsertParams == {[text |-> <<>>, n |-> 1], [text |-> Str(<<"1">>), n |-> 1],
                 [text |-> Str(<<"2">>), n |-> 2], [text |-> Str(<<"0">>), n |-> 1]}
InsertSeq(p) == Str(<<"ESC", "[">>) \o p.text \o Str(<<"@">>)
InsertScenarios == {Scenario(3, 8, InsertText \o InsertSeq(p)) : p \in InsertParams}

Scenarios ==
  AltScenarios \cup EraseScenarios \cup MoveScenarios \cup SgrScenarios
    \cup RegionScenarios \cup DecScenarios \cup SaveScenarios
    \cup TwiceScenarios \cup UnknownScenarios \cup OverlongScenarios
    \cup BelowGridScenarios \cup InsertScenarios

InitScript == \E sc \in Scenarios : Start(sc.rows, sc.cols, sc.bytes)

\* ttyread handing the next byte of the scripted child to term_putc.
ttyread_script ==
  /\ ~ub
  /\ script # <<>>
  /\ Apply(term_putc(State, Head(script)))
  /\ fed' = Append(fed, Head(script))
  /\ script' = Tail(script)
  /\ UNCHANGED procvars

NextScript == ttyread_script

SpecScript == InitScript /\ [][NextScript]_vars

\* The scripted child has written everything, and it wrote bytes.
Done(bytes) == script = <<>> /\ fed = bytes

\* The state in which the grid stood after the lead-in pre.
After(pre) == Run(InitState(xw.row, xw.col), pre)

\* ---- read batches: the child's output arrives in read() calls of any size ----
MaxBatchBytes == 4
BatchAlphabet == {Ord("ESC"), Ord("1"), Ord("B"), Ord("a"), Ord("LF")}

RECURSIVE Strings(_, _)
Strings(alphabet, n) ==
  IF n = 0 THEN {<<>>}
  ELSE LET shorter == Strings(alphabet, n - 1)
       IN shorter \cup {Append(b, c) : b \in shorter, c \in alphabet}

\* Variant of ReadBatch whose parser starts every batch in Ground.
ReadBatch_reset_parser(s, buf) ==
  Run([s EXCEPT !.in_escape = 0, !.escape_buf = <<>>], buf)

\* ttyread on a read() that returned the bytes buf.
ReadBatch(s, buf) == Run(s, buf)

InitBatch ==
  \E bytes \in Strings(BatchAlphabet, MaxBatchBytes) \ {<<>>} : Start(2, 2, bytes)

\* One turn of run() on a readable PTY: read() returns the first n unread
\* bytes (at most BUFSIZE), ttyread feeds them to term_putc, and xdraw
\* renders; xdraw assigns none of the globals.
ttyread_batch(n) ==
  /\ ~ub
  /\ n >= 1 /\ n <= Len(script) /\ n <= BUFSIZE
  /\ Apply(ReadBatch(State, SubSeq(script, 1, n)))
  /\ fed' = fed \o SubSeq(script, 1, n)
  /\ script' = SubSeq(script, n + 1, Len(script))
  /\ UNCHANGED procvars

NextBatch == \E n \in 1..MaxBatchBytes : ttyread_batch(n)

SpecBatch == InitBatch /\ [][NextBatch]_vars


\* ---- the child, the PTY and the signal handler ----

MaxUnread == 2     \* bytes the child may have written and the emulator not read
ChildBytes == {Ord("a"), Ord("LF")}
ExitCodes == {0, 1, 3}
Signals == {9, 15}

InitExit == Start(2, 2, <<>>)

\* The child writes one byte to the slave side.
child_write(c) ==
  /\ child.state = "running" /\ exit_status = -1
  /\ Len(pty.unread) < MaxUnread
  /\ Len(fed) + Len(pty.unread) < MaxBytes
  /\ pty' = [pty EXCEPT !.unread = Append(@, c)]
  /\ UNCHANGED <<term, xw, escape_buf, in_escape, current_fg, current_bg,
                 saved_row, saved_col, wrap, mouse_enabled, mouse_mode,
                 ub, pushed, fed, script, child, sigchld, exit_status>>

\* The child stops or continues: the kernel raises SIGCHLD for that too
\* (signal() sets no SA_NOCLDSTOP), and waitpid without WUNTRACED reports
\* nothing.
child_stop ==
  /\ child.state = "running" /\ exit_status = -1
  /\ ~sigchld
  /\ sigchld' = TRUE
  /\ UNCHANGED <<term, xw, escape_buf, in_escape, current_fg, current_bg,
                 saved_row, saved_col, wrap, mouse_enabled, mouse_mode,
                 ub, pushed, fed, script, child, pty, exit_status>>

\* The child calls exit(n) (kind "exited") or is killed by signal n (kind
\* "signaled").
child_exit(kind, n) ==
  /\ child.state = "running" /\ exit_status = -1
  /\ child' = [state |-> "exiting", kind |-> kind, n |-> n]
  /\ UNCHANGED <<term, xw, escape_buf, in_escape, current_fg, current_bg,
                 saved_row, saved_col, wrap, mouse_enabled, mouse_mode,
                 ub, pushed, fed, script, sigchld, pty, exit_status>>

\* The kernel closes the dead child's descriptors: the slave side hangs up
\* and the master becomes readable.
pty_hangup ==
  /\ child.state \in {"exiting", "zombie"} /\ exit_status = -1
  /\ ~pty.hup
  /\ pty' = [pty EXCEPT !.hup = TRUE]
  /\ UNCHANGED <<term, xw, escape_buf, in_escape, current_fg, current_bg,
                 saved_row, saved_col, wrap, mouse_enabled, mouse_mode,
                 ub, pushed, fed, script, child, sigchld, exit_status>>

\* The kernel makes the dead child waitable and raises SIGCHLD.
kernel_sigchld ==
  /\ child.state = "exiting" /\ exit_status = -1
  /\ child' = [child EXCEPT !.state = "zombie"]
  /\ sigchld' = TRUE
  /\ UNCHANGED <<term, xw, escape_buf, in_escape, current_fg, current_bg,
                 saved_row, saved_col, wrap, mouse_enabled, mouse_mode,
                 ub, pushed, fed, script, pty, exit_status>>

\* sigchld_handler, run when the pending SIGCHLD is delivered: waitpid with
\* WNOHANG returns child_pid only for a terminated child.
sigchld_handler ==
  /\ sigchld /\ exit_status = -1
  /\ sigchld' = FALSE
  /\ IF child.state = "zombie"
     THEN /\ child' = [child EXCEPT !.state = "reaped"]
          /\ exit_status' = IF child.kind = "exited" THEN child.n
                            ELSE 128 + child.n
     ELSE UNCHANGED <<child, exit_status>>
  /\ UNCHANGED <<term, xw, escape_buf, in_escape, current_fg, current_bg,
                 saved_row, saved_col, wrap, mouse_enabled, mouse_mode,
                 ub, pushed, fed, script, pty>>

\* ttyread once select reports the master readable: read returns the unread
\* bytes (all of them: fewer than BUFSIZE), or, with none left after a hang-up,
\* 0 (end of file) or -1 (EIO), and then exit(0) or die, which is exit(1).
ttyread_pty ==
  /\ ~ub /\ exit_status = -1 /\ script = <<>>
  /\ pty.unread # <<>> \/ pty.hup
  /\ IF pty.unread # <<>>
     THEN /\ Apply(Run(State, pty.unread))
          /\ fed' = fed \o pty.unread
          /\ pty' = [pty EXCEPT !.unread = <<>>]
          /\ UNCHANGED exit_status
     ELSE /\ \E n \in {-1, 0} : exit_status' = IF n < 0 THEN 1 ELSE 0
          /\ UNCHANGED <<term, xw, escape_buf, in_escape, current_fg,
                         current_bg, saved_row, saved_col, wrap, mouse_enabled,
                         mouse_mode, ub, pushed, fed, pty>>
  /\ UNCHANGED <<script, child, sigchld>>

NextExit ==
  \/ \E c \in ChildBytes : child_write(c)
  \/ child_stop
  \/ \E n \in ExitCodes : child_exit("exited", n)
  \/ \E n \in Signals : child_exit("signaled", n)
  \/ pty_hangup
  \/ kernel_sigchld
  \/ sigchld_handler
  \/ ttyread_pty

SpecExit == InitExit /\ [][NextExit]_vars

\* ---- the X events of xevent() ----

\* C's integer division, which truncates toward zero (b > 0).
CDiv(a, b) == IF a >= 0 THEN a \div b ELSE 0 - ((0 - a) \div b)

\* ttyresize(col, row): the new size is told to the child and stored; the
\* scroll region is reset to the bottom row and the active cursor is pulled
\* inside from the right and from below.
ttyresize(s, col, row) ==
  LET s1 == [s EXCEPT !.xw.col = col, !.xw.row = row,
                      !.xw.w = col * s.xw.font_width + 2 * s.xw.border,
                      !.xw.h = row * s.xw.font_height + 2 * s.xw.border,
                      !.term.scroll_bottom = row - 1]
      s2 == IF ActRow(s1) >= row THEN SetRow(s1, row - 1) ELSE s1
  IN IF ActCol(s2) >= col THEN SetCol(s2, col - 1) ELSE s2

\* case ConfigureNotify, for a window of width x height pixels
ConfigureNotify(s, width, height) ==
  LET new_cols == CDiv(width - 2 * s.xw.border, s.xw.font_width)
      new_rows == CDiv(height - 2 * s.xw.border, s.xw.font_height)
  IN IF new_cols # s.xw.col \/ new_rows # s.xw.row
     THEN ttyresize(s, new_cols, new_rows)
     ELSE s

\* Variant of ScrollUp that clamps at the capacity of the scrollback instead
\* of its length.
ScrollUp_clamp_capacity(s, n) ==
  LET o == s.term.scroll_offset - n
  IN [s EXCEPT !.term.scroll_offset =
                 IF o < 0 - SCROLLBACK_SIZE THEN 0 - SCROLLBACK_SIZE ELSE o]

\* scroll_offset -= n; if (scroll_offset < -scrollback_len) scroll_offset =
\* -scrollback_len;
ScrollUp(s, n) ==
  LET o == s.term.scroll_offset - n
  IN [s EXCEPT !.term.scroll_offset =
                 IF o < 0 - s.term.scrollback_len
                 THEN 0 - s.term.scrollback_len ELSE o]

\* scroll_offset += n; if (scroll_offset > 0) scroll_offset = 0;
ScrollDown(s, n) ==
  LET o == s.term.scroll_offset + n
  IN [s EXCEPT !.term.scroll_offset = IF o > 0 THEN 0 ELSE o]

\* strlen: the bytes of a buffer before its first NUL.
RECURSIVE CStr(_)
CStr(bytes) ==
  IF bytes = <<>> \/ Head(bytes) = 0 THEN <<>>
  ELSE <<Head(bytes)>> \o CStr(Tail(bytes))

\* %c: the argument converted to unsigned char.
Char(v) == v % 256

\* snprintf(buf, sizeof(buf), "\033[M %c%c%c", 32, x + 32, y + 32) and the
\* strlen(buf) bytes ttywrite is given.
MousePressReport(x, y) ==
  CStr(<<27, Ord("["), 77, Ord(" "), Char(32), Char(x + 32), Char(y + 32)>>)

\* A handler's outcome: the globals after it and the bytes it gave ttywrite.
Outcome(s, out) == [s |-> s, out |-> out]

\* case ButtonPress, for button 4, 5 or 1 at pixel (x, y)
ButtonPress(s, button, x, y) ==
  IF button = 4 THEN Outcome(ScrollUp(s, MOUSE_SCROLL_LINES), <<>>)
  ELSE IF button = 5 THEN Outcome(ScrollDown(s, MOUSE_SCROLL_LINES), <<>>)
  ELSE IF button = 1
  THEN LET row == CDiv(y - s.xw.border, s.xw.font_height)
                    + s.term.scrollback_len - s.term.scroll_offset
           col == CDiv(x - s.xw.border, s.xw.font_width)
           s1 == [s EXCEPT !.term.selecting = 1,
                           !.term.sel_start_row = row, !.term.sel_start_col = col,
                           !.term.sel_end_row = row, !.term.sel_end_col = col]
       IN IF s1.mouse_enabled # 0 /\ s1.mouse_mode >= 1000
          THEN Outcome(s1, MousePressReport(
                             s1.term.sel_start_col + 1,
                             s1.term.sel_start_row + 1 - s1.term.scrollback_len
                               + s1.term.scroll_offset))
          ELSE Outcome(s1, <<>>)
  ELSE Outcome(s, <<>>)

\* The keys pressed: keysym, modifiers and the text XLookupString returns.
\* Clipboard chords (Ctrl+Shift+C / V, Ctrl+V) are not among them.
Key(keysym, shift, ctrl, text) ==
  [keysym |-> keysym, shift |-> shift, ctrl |-> ctrl, text |-> text]
Keys == {Key("Up", TRUE, FALSE, <<>>), Key("Down", TRUE, FALSE, <<>>),
         Key("Return", FALSE, FALSE, <<13>>)}

\* case KeyPress
KeyPress(s, key) ==
  IF key.shift /\ key.keysym \in {"Up", "Down"}
  THEN IF key.keysym = "Up" THEN Outcome(ScrollUp(s, 1), <<>>)
       ELSE Outcome(ScrollDown(s, 1), <<>>)
  ELSE IF key.ctrl /\ key.keysym = "c" THEN Outcome(s, <<3>>)
  ELSE IF Len(key.text) > 0 THEN Outcome(s, key.text)
  ELSE IF key.keysym = "Up" THEN Outcome(s, Str(<<"ESC", "[", "A">>))
  ELSE IF key.keysym = "Down" THEN Outcome(s, Str(<<"ESC", "[", "B">>))
  ELSE IF key.keysym = "Return" THEN Outcome(s, <<13>>)
  ELSE Outcome(s, <<>>)

\* ---- the selection ----
NonZero(b) == b # 0

\* The loop of copy_selection from row r on: the bytes stored in sel_text, or
\* ub when a row or a column outside the arrays is read.
RECURSIVE SelRows(_, _, _)
SelRows(s, sel, r) ==
  IF r > sel.end_row THEN [ub |-> FALSE, text |-> <<>>]
  ELSE LET t == s.term
           in_scrollback == r < t.scrollback_len
           ring == t.scrollback_pos - t.scrollback_len + r + SCROLLBACK_SIZE
           src_row == IF in_scrollback THEN ring % SCROLLBACK_SIZE
                      ELSE r - t.scrollback_len
       IN IF in_scrollback /\ ring < 0 THEN [ub |-> TRUE, text |-> <<>>]
          ELSE IF ~in_scrollback /\ src_row >= s.xw.row
          THEN [ub |-> FALSE, text |-> <<>>]
          ELSE IF ~in_scrollback /\ src_row \notin Rows
          THEN [ub |-> TRUE, text |-> <<>>]
          ELSE LET data == IF in_scrollback THEN t.scrollback[src_row]
                           ELSE IF Alt(s) THEN t.alt_data[src_row]
                           ELSE t.data[src_row]
                   c_start == IF r = sel.start_row THEN sel.start_col ELSE 0
                   c_end == IF r = sel.end_row THEN sel.end_col ELSE s.xw.col - 1
               IN IF c_start <= c_end /\ (c_start \notin Cols \/ c_end \notin Cols)
                  THEN [ub |-> TRUE, text |-> <<>>]
                  ELSE LET cells == [i \in 1..(c_end - c_start + 1) |->
                                       data[c_start + i - 1]]
                           nl == IF r < sel.end_row THEN <<10>> ELSE <<>>
                           rest == SelRows(s, sel, r + 1)
                       IN [ub |-> rest.ub,
                           text |-> SelectSeq(cells, NonZero) \o nl \o rest.text]

\* Variant of SelBounds that takes the smaller column as the start and the
\* larger as the end.
SelBounds_min_max_col(t) ==
  [start_row |-> IF t.sel_start_row < t.sel_end_row THEN t.sel_start_row
                 ELSE t.sel_end_row,
   end_row |-> IF t.sel_start_row > t.sel_end_row THEN t.sel_start_row
               ELSE t.sel_end_row,
   start_col |-> IF t.sel_start_col < t.sel_end_col THEN t.sel_start_col
                 ELSE t.sel_end_col,
   end_col |-> IF t.sel_start_col > t.sel_end_col THEN t.sel_start_col
               ELSE t.sel_end_col]

\* start_row, end_row, start_col and end_col as copy_selection derives them.
SelBounds(t) ==
  [start_row |-> IF t.sel_start_row < t.sel_end_row THEN t.sel_start_row
                 ELSE t.sel_end_row,
   end_row |-> IF t.sel_start_row > t.sel_end_row THEN t.sel_start_row
               ELSE t.sel_end_row,
   start_col |-> IF t.sel_start_row < t.sel_end_row THEN t.sel_start_col
                 ELSE t.sel_end_col,
   end_col |-> IF t.sel_start_row < t.sel_end_row THEN t.sel_end_col
               ELSE t.sel_start_col]

\* copy_selection: the selected text becomes the CLIPBOARD property.  sel_text
\* has room for MAX_COLS bytes per row and the final NUL.
copy_selection(s) ==
  IF s.term.sel_start_row = -1 \/ s.term.sel_end_row = -1 THEN s
  ELSE LET sel == SelBounds(s.term)
           capacity == MAX_COLS * (sel.end_row - sel.start_row + 1) + 1
           res == SelRows(s, sel, sel.start_row)
       IN IF res.ub \/ Len(res.text) + 1 > capacity THEN Undefined(s)
          ELSE [s EXCEPT !.xw.clipboard = CStr(res.text)]

\* snprintf(buf, sizeof(buf), "\033[M!%c%c", x + 32, y + 32)
MouseReleaseReport(x, y) ==
  CStr(<<27, Ord("["), 77, Ord("!"), Char(x + 32), Char(y + 32)>>)

\* snprintf(buf, sizeof(buf), "\033[M\"%c%c", x + 32, y + 32)
MouseMotionReport(x, y) ==
  CStr(<<27, Ord("["), 77, 34, Char(x + 32), Char(y + 32)>>)

\* case ButtonRelease
ButtonRelease(s, button) ==
  IF button = 1
  THEN LET s1 == IF s.term.selecting # 0
                 THEN copy_selection([s EXCEPT !.term.selecting = 0])
                 ELSE s
       IN IF s1.mouse_enabled # 0 /\ s1.mouse_mode >= 1000
          THEN Outcome(s1, MouseReleaseReport(
                             s1.term.sel_end_col + 1,
                             s1.term.sel_end_row + 1 - s1.term.scrollback_len
                               + s1.term.scroll_offset))
          ELSE Outcome(s1, <<>>)
  ELSE Outcome(s, <<>>)

\* Variant of MotionNotify that moves the focus whether or not a selection is
\* in progress.
MotionNotify_always(s, x, y) ==
  Outcome([s EXCEPT !.term.sel_end_row =
                      CDiv(y - s.xw.border, s.xw.font_height)
                        + s.term.scrollback_len - s.term.scroll_offset,
                    !.term.sel_end_col = CDiv(x - s.xw.border, s.xw.font_width)],
          <<>>)

\* case MotionNotify, pointer at pixel (x, y)
MotionNotify(s, x, y) ==
  IF s.term.selecting # 0
  THEN LET s1 == [s EXCEPT !.term.sel_end_row =
                             CDiv(y - s.xw.border, s.xw.font_height)
                               + s.term.scrollback_len - s.term.scroll_offset,
                           !.term.sel_end_col =
                             CDiv(x - s.xw.border, s.xw.font_width)]
       IN IF s1.mouse_enabled # 0 /\ s1.mouse_mode >= 1002
          THEN Outcome(s1, MouseMotionReport(
                             s1.term.sel_end_col + 1,
                             s1.term.sel_end_row + 1 - s1.term.scrollback_len
                               + s1.term.scroll_offset))
          ELSE Outcome(s1, <<>>)
  ELSE Outcome(s, <<>>)

\* ---- the renderer ----
\* The selection bounds xdraw derives, -1 everywhere while no selection is set.
DrawBounds(t) ==
  IF t.sel_start_row # -1 /\ t.sel_end_row # -1 THEN SelBounds(t)
  ELSE [start_row |-> -1, end_row |-> -1, start_col |-> -1, end_col |-> -1]

\* is_selected for column c of the display row whose actual_row is given.
IsSelected(sel, actual_row, c) ==
  IF actual_row >= sel.start_row /\ actual_row <= sel.end_row
  THEN IF actual_row = sel.start_row /\ actual_row = sel.end_row
       THEN c >= sel.start_col /\ c <= sel.end_col
       ELSE IF actual_row = sel.start_row THEN c >= sel.start_col
       ELSE IF actual_row = sel.end_row THEN c <= sel.end_col
       ELSE TRUE
  ELSE FALSE

\* The loop of xdraw from display row r on: the rows painted, top first, each
\* with the array and the index it was read from, its characters and the
\* columns painted as selected; ub when an index outside the arrays is used.
\* The loop ends early at a grid row beyond xw.row.
RECURSIVE DrawRows(_, _)
DrawRows(s, r) ==
  LET t == s.term
      start_row == t.scroll_offset
      display_rows == IF s.xw.row < t.scrollback_len + s.xw.row THEN s.xw.row
                      ELSE t.scrollback_len + s.xw.row
      from_scrollback == r + start_row < t.scrollback_len
      ring == t.scrollback_pos - t.scrollback_len + r + start_row + SCROLLBACK_SIZE
      src_row == IF from_scrollback THEN ring % SCROLLBACK_SIZE
                 ELSE r + start_row - t.scrollback_len
      actual_row == r + start_row - t.scrollback_len
      sel == DrawBounds(t)
  IN IF r >= display_rows THEN [ub |-> FALSE, rows |-> <<>>]
     ELSE IF from_scrollback /\ ring < 0
     THEN [ub |-> TRUE, rows |-> <<[from |-> "scrollback", src_row |-> ring]>>]
     ELSE IF ~from_scrollback /\ src_row >= s.xw.row
     THEN [ub |-> FALSE, rows |-> <<>>]
     ELSE IF (~from_scrollback /\ src_row \notin Rows) \/ s.xw.col > MAX_COLS
     THEN [ub |-> TRUE, rows |-> <<[from |-> "grid", src_row |-> src_row]>>]
     ELSE LET data == IF from_scrollback THEN t.scrollback[src_row]
                      ELSE IF Alt(s) THEN t.alt_data[src_row]
                      ELSE t.data[src_row]
              row == [from |-> IF from_scrollback THEN "scrollback" ELSE "grid",
                      src_row |-> src_row,
                      data |-> [c \in 0..(s.xw.col - 1) |-> data[c]],
                      selected |-> {c \in 0..(s.xw.col - 1) :
                                      IsSelected(sel, actual_row, c)}]
              rest == DrawRows(s, r + 1)
          IN [ub |-> rest.ub, rows |-> <<row>> \o rest.rows]

\* xdraw: the frame painted into xw.pixmap and copied to the window.
xdraw(s) == DrawRows(s, 0)

\* The globals after a handler's call of xdraw: unchanged, unless xdraw read
\* outside the arrays.  Every turn of run() that changes the globals ends
\* with xdraw, so the frame on display in a state is xdraw of that state.
\* While scroll_offset is 0 and the grid fits the arrays xdraw reads inside
\* them, so only the actions of the specifications with key, wheel and
\* resize events need it.
Drawn(s) == IF ~s.ub /\ xdraw(s).ub THEN Undefined(s) ELSE s

MaxWritten == 1    \* bytes written to the PTY in a run

\* ttywrite(s, n)
ttywrite(out) == pty' = [pty EXCEPT !.written = @ \o out]

\* Window sizes the display reports: enough pixels for n whole cells and part
\* of another.
ResizeCols == {2, MAX_COLS + 1}
ResizeRows == {1, MAX_ROWS + 1}
WidthPx(n) == 2 * BORDER_WIDTH + n * FontWidth + (FontWidth - 1)
HeightPx(n) == 2 * BORDER_WIDTH + n * FontHeight + (FontHeight - 1)

\* Pointer positions: inside cell n of a row or a column.
ClickCells == {0, 1}
XPx(n) == BORDER_WIDTH + n * FontWidth + 1
YPx(n) == BORDER_WIDTH + n * FontHeight + 1

MaxUIBytes == 3    \* bytes fed between the events of a run
UIBytes == {Ord("a"), Ord("LF")}

InitUI == Start(2, 2, <<>>)

\* ttyread between events, one byte at a time, and the xdraw that follows it.
ttyread_ui(c) ==
  /\ ~ub /\ exit_status = -1
  /\ script = <<>>
  /\ Len(fed) < MaxUIBytes
  /\ Apply(Drawn(term_putc(State, c)))
  /\ fed' = Append(fed, c)
  /\ UNCHANGED <<script, child, sigchld, pty, exit_status>>

xevent_ConfigureNotify(width, height) ==
  /\ ~ub /\ exit_status = -1
  /\ Apply(Drawn(ConfigureNotify(State, width, height)))
  /\ UNCHANGED <<fed, script, child, sigchld, pty, exit_status>>

xevent_ButtonPress(button, x, y) ==
  /\ ~ub /\ exit_status = -1
  /\ LET o == ButtonPress(State, button, x, y)
     IN /\ Len(pty.written) + Len(o.out) <= MaxWritten
        /\ Apply(Drawn(o.s))
        /\ ttywrite(o.out)
  /\ UNCHANGED <<fed, script, child, sigchld, exit_status>>

xevent_KeyPress(key) ==
  /\ ~ub /\ exit_status = -1
  /\ LET o == KeyPress(State, key)
     IN /\ Len(pty.written) + Len(o.out) <= MaxWritten
        /\ Apply(Drawn(o.s))
        /\ ttywrite(o.out)
  /\ UNCHANGED <<fed, script, child, sigchld, exit_status>>

NextUI ==
  \/ \E c \in UIBytes : ttyread_ui(c)
  \/ \E nc \in ResizeCols, nr \in ResizeRows :
       xevent_ConfigureNotify(WidthPx(nc), HeightPx(nr))
  \/ \E b \in {1, 4, 5}, n \in ClickCells :
       xevent_ButtonPress(b, XPx(n), YPx(n))
  \/ \E key \in Keys : xevent_KeyPress(key)

SpecUI == InitUI /\ [][NextUI]_vars

\* ---- selecting with the mouse over the output of a scripted child ----
\* The child fills both rows of a 2x2 grid, scrolls one row out and starts
\* the next line.
SelText == Str(<<"a", "b", "b", "a", "a">>)

InitSel == Start(2, 2, SelText)

xevent_ButtonRelease(button) ==
  /\ ~ub /\ exit_status = -1
  /\ LET o == ButtonRelease(State, button)
     IN /\ Len(pty.written) + Len(o.out) <= MaxWritten
        /\ Apply(Drawn(o.s))
        /\ ttywrite(o.out)
  /\ UNCHANGED <<fed, script, child, sigchld, exit_status>>

xevent_MotionNotify(x, y) ==
  /\ ~ub /\ exit_status = -1
  /\ LET o == MotionNotify(State, x, y)
     IN /\ Len(pty.written) + Len(o.out) <= MaxWritten
        /\ Apply(Drawn(o.s))
        /\ ttywrite(o.out)
  /\ UNCHANGED <<fed, script, child, sigchld, exit_status>>

NextSel ==
  \/ ttyread_script
  \/ \E n \in ClickCells, m \in ClickCells : xevent_ButtonPress(1, XPx(n), YPx(m))
  \/ \E n \in ClickCells, m \in ClickCells : xevent_MotionNotify(XPx(n), YPx(m))
  \/ xevent_ButtonRelease(1)
  \/ \E key \in Keys : xevent_KeyPress(key)

SpecSel == InitSel /\ [][NextSel]_vars


\* ---- resizing the window while a scripted child writes ----
\* The children: one sets the scroll region to the bottom row, one moves the
\* cursor up, two write lines of text.
ResizeTexts == {Str(<<"ESC", "1", "2", "r", "LF", "a">>),
                Str(<<"ESC", "1", "-", "1", "B", "a">>),
                Str(<<"a", "LF", "a", "LF", "a">>),
                Str(<<"a", "a", "a", "LF", "b">>)}

InitResize == \E bytes \in ResizeTexts : Start(MaxGridRows, MaxGridCols, bytes)

\* The window is resized to any grid of 1..MaxGridRows rows and
\* 1..MaxGridCols columns, at any point of the child's output.
NextResize ==
  \/ ttyread_script
  \/ \E nc \in 1..MaxGridCols, nr \in 1..MaxGridRows :
       xevent_ConfigureNotify(WidthPx(nc), HeightPx(nr))

SpecResize == InitResize /\ [][NextResize]_vars


\* ---- claims ----

\* C1: for every sequence of bytes fed to term_putc, the active buffer's
\* cursor satisfies 0 <= row < rows and 0 <= col <= cols.
C1_CursorInGrid ==
  /\ 0 <= ActRow(State) /\ ActRow(State) < xw.row
  /\ 0 <= ActCol(State) /\ ActCol(State) <= xw.col

\* C2: for every sequence of bytes fed to term_putc, the scroll region
\* satisfies 0 <= scroll_top <= scroll_bottom < rows.
C2_ScrollRegionOrdered ==
  /\ 0 <= term.scroll_top
  /\ term.scroll_top <= term.scroll_bottom
  /\ term.scroll_bottom < xw.row


\* The i-th oldest retained scrollback line of t, read as copy_selection and
\* xdraw read it.
ScrollbackAt(t, i) ==
  LET src_row == (t.scrollback_pos - t.scrollback_len + i + SCROLLBACK_SIZE)
                   % SCROLLBACK_SIZE
  IN Line(t.scrollback[src_row], t.scrollback_fg[src_row], t.scrollback_bg[src_row])

\* C3: scrollback_len never exceeds SCROLLBACK_SIZE; once it equals
\* SCROLLBACK_SIZE, a push leaves it unchanged, drops exactly the oldest
\* retained row, keeps the others unmodified and in order, and makes the
\* pushed row the newest.
C3_PushAtCapacity ==
  /\ [](term.scrollback_len <= SCROLLBACK_SIZE)
  /\ [][(pushed' # pushed /\ term.scrollback_len = SCROLLBACK_SIZE) =>
          /\ term'.scrollback_len = SCROLLBACK_SIZE
          /\ \A i \in 0..(SCROLLBACK_SIZE - 2) :
               ScrollbackAt(term', i) = ScrollbackAt(term, i + 1)
          /\ ScrollbackAt(term', SCROLLBACK_SIZE - 1) = pushed'[Len(pushed')]
       ]_vars

\* A push at capacity has happened, and the retained rows differ.
C3_Witness ==
  /\ term.scrollback_len = SCROLLBACK_SIZE
  /\ Len(pushed) > SCROLLBACK_SIZE
  /\ ScrollbackAt(term, 0) # ScrollbackAt(term, SCROLLBACK_SIZE - 1)
  /\ ScrollbackAt(term, 0).data # pushed[1].data

IsPrintable(b) == b >= 32 /\ b <= 126
AllPrintable(bytes) == \A i \in 1..Len(bytes) : IsPrintable(bytes[i])

\* Row 0 of the primary grid reads bytes followed by blanks.
Row0Reads(bytes) ==
  \A c \in 0..(xw.col - 1) :
    term.data[0][c] = IF c < Len(bytes) THEN bytes[c + 1] ELSE 0

\* C10 as stated: for every grid size and every printable string s with
\* length <= cols, feeding s to the initial terminal leaves row 0 equal to s
\* followed by blanks.
C10_RoundTrip_AsStated ==
  (AllPrintable(fed) /\ Len(fed) <= xw.col) => Row0Reads(fed)

\* C10 amended: the same, for grids of at least two rows, or strings shorter
\* than the line.
C10_RoundTrip ==
  (AllPrintable(fed) /\ Len(fed) <= xw.col /\ (xw.row >= 2 \/ Len(fed) < xw.col))
    => Row0Reads(fed)

\* A full line was written and wrapped, and row 0 still reads it.
C10_Witness ==
  /\ xw.row = 2 /\ xw.col = 2 /\ Len(fed) = 2 /\ AllPrintable(fed)
  /\ fed[1] # fed[2]
  /\ term.row = 1 /\ term.col = 0
  /\ Row0Reads(fed)


SameScrollback(t1, t2) ==
  /\ t1.scrollback = t2.scrollback /\ t1.scrollback_fg = t2.scrollback_fg
  /\ t1.scrollback_bg = t2.scrollback_bg
  /\ t1.scrollback_len = t2.scrollback_len /\ t1.scrollback_pos = t2.scrollback_pos

\* C5: starting on the primary buffer with 'X' at (0,0), feeding
\* ESC [ ? 1049 h, 'Y', ESC [ ? 1049 l writes 'Y' at (0,0) of the alternate
\* buffer, leaves every primary cell and the scrollback unchanged, and ends on
\* the primary buffer with its cursor at (0,0).
C5_AltRoundTrip ==
  \A pre \in {Str(<<"X">>), Str(<<"X", "CR">>)} :
    Done(pre \o AltOn \o Str(<<"Y">>) \o AltOff) =>
      LET before == After(pre).term
      IN /\ before.data[0][0] = Ord("X")
         /\ term.alt_data[0][0] = Ord("Y")
         /\ term.data = before.data /\ term.fg = before.fg /\ term.bg = before.bg
         /\ SameScrollback(term, before)
         /\ term.use_alt_buffer = 0
         /\ term.row = 0 /\ term.col = 0

\* C6: from any reachable state, feeding ESC [ 2 J then ESC [ H leaves every
\* cell of the active grid blank (ch = 0, default fg/bg) and the active cursor
\* at (0, 0).
C6_EraseAndHome ==
  \A pre \in LeadIns \ {<<>>} :
    Done(pre \o EraseAll \o CursorHome) =>
      /\ \A r \in 0..(xw.row - 1), c \in 0..(xw.col - 1) :
           /\ ActData(State)[r][c] = 0
           /\ ActFg(State)[r][c] = defaultfg
           /\ ActBg(State)[r][c] = defaultbg
      /\ ActRow(State) = 0 /\ ActCol(State) = 0

Min(a, b) == IF a < b THEN a ELSE b
Max(a, b) == IF a > b THEN a ELSE b

\* C7: ESC [ n A / B / C / D moves the active cursor up / down / right / left
\* by n (1 when absent), clamped at row 0 / rows-1 / column cols-1 / column 0.
C7_CursorMoves ==
  \A pre \in LeadIns, p \in MoveParams, f \in MoveFinals :
    Done(pre \o MoveSeq(p, f)) =>
      LET row == ActRow(After(pre))
          col == ActCol(After(pre))
      IN /\ ActRow(State) = IF f = Ord("A") THEN Max(row - p.n, 0)
                            ELSE IF f = Ord("B") THEN Min(row + p.n, xw.row - 1)
                            ELSE row
         /\ ActCol(State) = IF f = Ord("C") THEN Min(col + p.n, xw.col - 1)
                            ELSE IF f = Ord("D") THEN Max(col - p.n, 0)
                            ELSE col

\* C8: feeding ESC [ 31 m, 'R', ESC [ 0 m, 'N' yields cell 0 = {'R', fg 1,
\* default bg} and cell 1 = {'N', default fg, default bg}; in general a
\* printable byte is stored with the colours the latest SGR code selected.
C8_SgrColours ==
  /\ Done(SgrScenario) =>
       /\ term.data[0][0] = Ord("R") /\ term.fg[0][0] = 1
       /\ term.bg[0][0] = DEFAULT_BG
       /\ term.data[0][1] = Ord("N") /\ term.fg[0][1] = DEFAULT_FG
       /\ term.bg[0][1] = DEFAULT_BG
  /\ \A p \in SgrParams :
       Done(SgrSeq(p) \o Str(<<"R">>)) =>
         /\ term.data[0][0] = Ord("R")
         /\ term.fg[0][0] = p.fg /\ term.bg[0][0] = p.bg

\* C9: on a 5-row by 10-column grid, ESC [ 2 ; 4 r sets the scroll region to
\* rows 1..3, and "A\nB\nC\nD\n" then ends with scrollback length 1 holding the
\* former grid row 1, and row 0 untouched by the scroll.
C9_RegionScroll ==
  /\ (xw.row = 5 /\ xw.col = 10 /\ fed = RegionSeq) =>
       (term.scroll_top = 1 /\ term.scroll_bottom = 3)
  /\ Done(RegionSeq \o RegionText) =>
       /\ term.scroll_top = 1 /\ term.scroll_bottom = 3
       /\ term.scrollback_len = 1
       /\ Len(pushed) = 1
       /\ ScrollbackAt(term, 0) = pushed[1]
       /\ term.data[0][0] = Ord("A")

C12_DecPrivateModes ==
  \A pre \in DecLeadIns, m \in DecModes :
    Done(pre \o DecSeq(m)) =>
      LET before == After(pre)
      IN /\ wrap = IF m.wrap = -1 THEN before.wrap ELSE m.wrap
         /\ mouse_enabled = IF m.enabled = -1 THEN before.mouse_enabled ELSE m.enabled
         /\ mouse_mode = IF m.mode = -1 THEN before.mouse_mode ELSE m.mode
         /\ term = before.term

\* C13: from the initial state, ESC 7, "ABC", ESC 8, "XY" leaves row 0 with
\* 'X' at column 0, 'Y' at column 1 and 'C' at column 2, and the cursor at
\* (0, 2).
C13_SaveRestore ==
  Done(SaveRestoreText) =>
    /\ term.data[0][0] = Ord("X") /\ term.data[0][1] = Ord("Y")
    /\ term.data[0][2] = Ord("C")
    /\ term.row = 0 /\ term.col = 2

\* C14: the saved cursor is per buffer (a save made while one buffer is
\* active does not change the position a later restore yields in the other
\* buffer), and the current fg/bg are unchanged by ESC [ ? 1049 h / l.
C14_SavedCursorPerBuffer ==
  /\ Done(SavePrimaryFirst) =>
       (term.use_alt_buffer = 0 /\ term.row = 0 /\ term.col = 1)
  /\ Done(SaveAlternateFirst) =>
       (term.use_alt_buffer = 1 /\ term.alt_row = 0 /\ term.alt_col = 1)
  /\ Done(SgrAcrossSwitch) =>
       LET before == After(Str(<<"ESC", "[", "3", "1", "m">>))
       IN current_fg = before.current_fg /\ current_bg = before.current_bg

\* C15: from any state, feeding ESC [ ? 1049 h twice produces the same
\* terminal state (active buffer, both grids, cursors, scrollback) as feeding it
\* once.
C15_AltOnIdempotent ==
  \A pre \in LeadIns :
    Done(pre \o AltOn \o AltOn) => term = After(pre \o AltOn).term

\* C20: an unrecognised escape sequence u (ESC and one byte other than '[',
\* '7', '8'; or ESC [ parameters and an unimplemented final byte) consumes
\* exactly its own bytes: feeding u then t yields the same grids, cursors,
\* scroll region, SGR state and modes as feeding t alone.
C20_UnknownIgnored ==
  \A u \in UnknownSeqs, tx \in FollowTexts :
    Done(u \o tx) =>
      LET alone == After(tx)
      IN /\ term = alone.term
         /\ current_fg = alone.current_fg /\ current_bg = alone.current_bg
         /\ wrap = alone.wrap
         /\ mouse_enabled = alone.mouse_enabled /\ mouse_mode = alone.mouse_mode

\* C16: on every interleaving of the child's termination, the delivery of
\* SIGCHLD to sigchld_handler and the main loop's read of the PTY, the emulator
\* terminates with the child's exit status, or with 128 + the signal number
\* when the child was killed by a signal.
C16_ExitStatusOfChild ==
  exit_status # -1 =>
    /\ child.kind \in {"exited", "signaled"}
    /\ exit_status = IF child.kind = "exited" THEN child.n ELSE 128 + child.n

\* The scroll events: Shift+Up / Shift+Down and the wheel buttons.
ScrollEvent ==
  \/ \E key \in {k \in Keys : k.shift} : xevent_KeyPress(key)
  \/ \E b \in {4, 5}, n \in ClickCells :
       xevent_ButtonPress(b, XPx(n), YPx(n))

\* C17: after any interleaving of PTY input, Shift+Up / Shift+Down (step 1)
\* and scroll-wheel events (step MOUSE_SCROLL_LINES), scroll_offset lies in
\* [-scrollback_len, 0], and none of these scroll events writes a byte to the
\* PTY.
C17_ScrollOffsetRange ==
  /\ [](0 - term.scrollback_len <= term.scroll_offset /\ term.scroll_offset <= 0)
  /\ [][ScrollEvent => pty'.written = pty.written]_vars

\* The view is scrolled back to the oldest line of a full scrollback, and
\* keys have written to the PTY meanwhile.
C17_Witness ==
  /\ term.scrollback_len = SCROLLBACK_SIZE
  /\ term.scroll_offset = 0 - term.scrollback_len
  /\ pty.written # <<>>

\* C19: after any resize event, whatever pixel size the display reports,
\* rows <= MAX_ROWS and cols <= MAX_COLS.
C19_GridWithinCapacity ==
  xw.row <= MAX_ROWS /\ xw.col <= MAX_COLS


\* C21: the escape accumulator index escape_len stays strictly below the
\* capacity of escape_buf, BUFSIZE: a sequence that reaches the capacity
\* without a final byte has been discarded and the parser is back in Ground.
C21_EscapeLenBelowCapacity == Len(escape_buf) < BUFSIZE


\* C22: batch-split independence: however the bytes read so far were split
\* into read() batches (with a render after each), the state is the one a
\* single batch holding all of them produces.
C22_BatchSplitIndependence == State = Run(InitState(2, 2), fed)

\* A batch has ended inside an escape sequence: ESC 1 was read and rendered,
\* the parser holds it, and the rest of the sequence is still unread.
C22_Witness ==
  /\ fed = Str(<<"ESC", "1">>)
  /\ script = Str(<<"1", "B">>)
  /\ in_escape = 1
  /\ escape_buf = fed
  /\ ~ub


\* The step feeds one byte in Ground that takes the primary cursor past
\* scroll_bottom: a line feed, or a printable byte in the last column.
PastBottomStep ==
  /\ Len(fed') = Len(fed) + 1
  /\ in_escape = 0 /\ term.use_alt_buffer = 0
  /\ LET c == fed'[Len(fed')]
     IN \/ c = 10 /\ term.row + 1 > term.scroll_bottom
        \/ /\ IsPrintable(c) /\ term.row < xw.row /\ term.col < xw.col
           /\ term.col + 1 >= xw.col /\ wrap # 0
           /\ term.row + 1 > term.scroll_bottom

\* The primary grid as the scroll step finds it: with the printable byte of
\* the step already written.
BeforeScroll ==
  LET c == fed'[Len(fed')]
  IN IF c = 10 THEN term
     ELSE PutCell(State, FALSE, term.row, term.col, c, current_fg, current_bg).term

\* C23: each time a line feed or a wrap takes the primary cursor past
\* scroll_bottom, exactly one scroll step occurs: the former row scroll_top
\* becomes the newest scrollback row, rows top..bottom-1 take the former
\* rows top+1..bottom, row bottom becomes blank with the default colours,
\* the grid rows outside [top, bottom] are unchanged, and the cursor row
\* becomes scroll_bottom.
C23_ScrollStep ==
  [][(PastBottomStep /\ ~ub') =>
       LET old == BeforeScroll
           top == term.scroll_top
           bottom == term.scroll_bottom
       IN /\ Len(pushed') = Len(pushed) + 1
          /\ ScrollbackAt(term', term'.scrollback_len - 1)
               = Line(old.data[top], old.fg[top], old.bg[top])
          /\ \A r \in top..(bottom - 1) :
               /\ term'.data[r] = old.data[r + 1]
               /\ term'.fg[r] = old.fg[r + 1]
               /\ term'.bg[r] = old.bg[r + 1]
          /\ \A c \in Cols :
               /\ term'.data[bottom][c] = 0
               /\ term'.fg[bottom][c] = defaultfg
               /\ term'.bg[bottom][c] = defaultbg
          /\ \A r \in (0..(xw.row - 1)) \ (top..bottom) :
               /\ term'.data[r] = old.data[r]
               /\ term'.fg[r] = old.fg[r]
               /\ term'.bg[r] = old.bg[r]
          /\ term'.row = bottom
    ]_vars


\* C24: the shift-on-full scrollback store reads as a ring: for every i with
\* 0 <= i < scrollback_len the row at physical index
\* (scrollback_pos - scrollback_len + i + SCROLLBACK_SIZE) mod SCROLLBACK_SIZE
\* is the i-th oldest retained row, and the newest row is at
\* (scrollback_pos - 1) mod SCROLLBACK_SIZE.
C24_RingView ==
  ~ub =>
    LET len == term.scrollback_len
        newest == (term.scrollback_pos - 1) % SCROLLBACK_SIZE
    IN /\ len <= Len(pushed)
       /\ \A i \in 0..(len - 1) :
            ScrollbackAt(term, i) = pushed[Len(pushed) - len + i + 1]
       /\ len > 0 =>
            Line(term.scrollback[newest], term.scrollback_fg[newest],
                 term.scrollback_bg[newest]) = pushed[Len(pushed)]

\* One row more than the capacity has been pushed, and neighbouring pushes
\* differ.
C24_Witness ==
  /\ ~ub
  /\ term.scrollback_len = SCROLLBACK_SIZE
  /\ Len(pushed) = SCROLLBACK_SIZE + 1
  /\ \A i \in 1..SCROLLBACK_SIZE : pushed[i].data # pushed[i + 1].data


\* C26: ESC [ n @ with the cursor at (r, c) shifts the cells of row r in
\* columns c..cols-1-n right by n, clears the n opened cells c..c+n-1 to
\* blank with the default colours (n at least 1 and at most cols-c), and
\* leaves the cursor and every other row unchanged.
C26_InsertBlanks ==
  \A p \in InsertParams :
    Done(InsertText \o InsertSeq(p)) =>
      LET before == After(InsertText).term
          r == before.row
          c == before.col
          n == Min(Max(p.n, 1), xw.col - c)
      IN /\ ~ub
         /\ term.row = r /\ term.col = c
         /\ \A k \in 0..(xw.col - 1) :
              IF k < c
              THEN /\ term.data[r][k] = before.data[r][k]
                   /\ term.fg[r][k] = before.fg[r][k]
                   /\ term.bg[r][k] = before.bg[r][k]
              ELSE IF k < c + n
              THEN /\ term.data[r][k] = 0
                   /\ term.fg[r][k] = defaultfg
                   /\ term.bg[r][k] = defaultbg
              ELSE /\ term.data[r][k] = before.data[r][k - n]
                   /\ term.fg[r][k] = before.fg[r][k - n]
                   /\ term.bg[r][k] = before.bg[r][k - n]
         /\ \A q \in (0..(xw.row - 1)) \ {r} :
              /\ term.data[q] = before.data[q]
              /\ term.fg[q] = before.fg[q]
              /\ term.bg[q] = before.bg[q]


\* The characters of row r of the unified row space: scrollback rows, oldest
\* first, and then the rows of the grid.
UnifiedRow(t, r) ==
  IF r < t.scrollback_len THEN ScrollbackAt(t, r).data
  ELSE t.data[r - t.scrollback_len]

\* Row r is a row of the scrollback or of the grid.
RowExists(r) == r >= 0 /\ r < term.scrollback_len + xw.row

\* The non-zero bytes of columns lo..hi of unified row r, in column order.
RowBytes(t, r, lo, hi) ==
  SelectSeq([i \in 1..(hi - lo + 1) |-> UnifiedRow(t, r)[lo + i - 1]], NonZero)

\* The step is the button release that ends a selection and copies it.
ReleaseStep == term.selecting = 1 /\ term'.selecting = 0 /\ ~ub'

\* C27: for a selection whose anchor (r, a) and focus (r, b) lie on the same
\* row with a <= b, copy_selection emits exactly the non-zero bytes of
\* columns a..b of that row, in column order.
C27_SingleRowCopy ==
  [][(/\ ReleaseStep
      /\ term.sel_start_row = term.sel_end_row
      /\ term.sel_start_col <= term.sel_end_col
      /\ RowExists(term.sel_start_row)) =>
       xw'.clipboard = RowBytes(term, term.sel_start_row,
                                term.sel_start_col, term.sel_end_col)
    ]_vars

\* The text of rows r..last.row of a selection from the endpoint first to the
\* endpoint last: the first row from first.col on, the last row up to
\* last.col, the rows between whole, a newline after every row but the last.
RECURSIVE RowsText(_, _, _, _, _)
RowsText(t, cols, first, last, r) ==
  IF r > last.row THEN <<>>
  ELSE RowBytes(t, r, IF r = first.row THEN first.col ELSE 0,
                      IF r = last.row THEN last.col ELSE cols - 1)
         \o (IF r < last.row THEN <<10>> ELSE <<>>)
         \o RowsText(t, cols, first, last, r + 1)

Anchor == [row |-> term.sel_start_row, col |-> term.sel_start_col]
Focus == [row |-> term.sel_end_row, col |-> term.sel_end_col]

PointerCell(n, m) ==
  [row |-> m + term.scrollback_len - term.scroll_offset, col |-> n]

\* C29: selection lifecycle: a button-1 press sets anchor = focus = the
\* pressed cell and makes the selection active; motion moves the focus, and
\* only while the selection is active; the release ends the selection and
\* keeps both; from then on anchor and focus keep their values through
\* motion, key and PTY events until the next button-1 press.
C29_SelectionLifecycle ==
  [][/\ \A n \in ClickCells, m \in ClickCells :
          xevent_ButtonPress(1, XPx(n), YPx(m)) =>
            /\ term'.selecting = 1
            /\ Anchor' = PointerCell(n, m)
            /\ Focus' = PointerCell(n, m)
     /\ \A n \in ClickCells, m \in ClickCells :
          xevent_MotionNotify(XPx(n), YPx(m)) =>
            /\ term'.selecting = term.selecting
            /\ Anchor' = Anchor
            /\ Focus' = IF term.selecting = 1 THEN PointerCell(n, m) ELSE Focus
     /\ xevent_ButtonRelease(1) =>
          term'.selecting = 0 /\ Anchor' = Anchor /\ Focus' = Focus
     /\ (term.selecting = 0 /\ term'.selecting = 0) =>
          Anchor' = Anchor /\ Focus' = Focus
     /\ Anchor' # Anchor => term'.selecting = 1 /\ Focus' = Anchor'
     /\ term'.selecting \in {0, 1}
    ]_vars

\* A right-to-left selection of row 0 was copied when the row read "a"; the
\* child has since written the rest and scrolled the row out, a key has
\* scrolled the view back, and anchor and focus are as the release left them.
C29_Witness ==
  /\ ~ub /\ term.selecting = 0
  /\ Anchor = [row |-> 0, col |-> 1]
  /\ Focus = [row |-> 0, col |-> 0]
  /\ xw.clipboard = Str(<<"a">>)
  /\ script = <<>>
  /\ term.scroll_offset = -1


\* C30: ttyresize re-establishes the state invariants: after a resize to a
\* size with 1 <= rows <= MAX_ROWS and 1 <= cols <= MAX_COLS, in any
\* reachable state, 0 <= scroll_top <= scroll_bottom = rows-1 holds and the
\* cursors of the primary and of the alternate buffer lie inside the new grid.
C30_ResizeRestoresInvariants ==
  [][(xw' # xw /\ xw'.row \in 1..MAX_ROWS /\ xw'.col \in 1..MAX_COLS) =>
       /\ 0 <= term'.scroll_top
       /\ term'.scroll_top <= term'.scroll_bottom
       /\ term'.scroll_bottom = xw'.row - 1
       /\ term'.row \in 0..(xw'.row - 1) /\ term'.col \in 0..(xw'.col - 1)
       /\ term'.alt_row \in 0..(xw'.row - 1)
       /\ term'.alt_col \in 0..(xw'.col - 1)
    ]_vars


\* The array and index that hold unified row u: the u-th oldest scrollback
\* row, or row u - scrollback_len of the grid.
UnifiedSource(t, u) ==
  IF u < t.scrollback_len
  THEN [from |-> "scrollback",
        src_row |-> (t.scrollback_pos - t.scrollback_len + u + SCROLLBACK_SIZE)
                      % SCROLLBACK_SIZE]
  ELSE [from |-> "grid", src_row |-> u - t.scrollback_len]

\* The grid fits the arrays and the view is scrolled back by 0..scrollback_len
\* lines.
ViewInRange ==
  /\ xw.row \in 1..MAX_ROWS /\ xw.col \in 1..MAX_COLS
  /\ term.scroll_offset <= 0 /\ 0 - term.scroll_offset <= term.scrollback_len

\* C31: the viewport shown by xdraw follows scroll_offset: with
\* scroll_offset = 0 display row r shows grid row r for every r < rows,
\* whatever the scrollback length, and with scroll_offset = -k the top k
\* display rows show the k newest scrollback rows, followed by grid rows
\* 0..rows-1-k.
C31_ViewportFollowsOffset ==
  ViewInRange =>
    LET frame == xdraw(State)
        first == term.scrollback_len + term.scroll_offset
    IN /\ ~frame.ub
       /\ Len(frame.rows) = xw.row
       /\ \A r \in 0..(xw.row - 1) :
            /\ frame.rows[r + 1].from = UnifiedSource(term, first + r).from
            /\ frame.rows[r + 1].src_row = UnifiedSource(term, first + r).src_row


\* The scrollback slots that hold the scrollback_len retained rows.
RetainedSlots ==
  {UnifiedSource(term, u).src_row : u \in 0..(term.scrollback_len - 1)}

\* C32: in every reachable state (any scrollback length up to the capacity,
\* any scroll_offset in [-scrollback_len, 0]) every scrollback row index
\* that xdraw computes lies in [0, SCROLLBACK_SIZE) and denotes one of the
\* scrollback_len retained rows: never a negative index, never a slot that
\* was never written.
C32_DrawIndexRetained ==
  ViewInRange =>
    LET frame == xdraw(State)
    IN \A i \in 1..Len(frame.rows) :
         frame.rows[i].from = "scrollback" =>
           /\ frame.rows[i].src_row \in 0..(SCROLLBACK_SIZE - 1)
           /\ frame.rows[i].src_row \in RetainedSlots


\* C33: mouse and renderer agree on row addressing: for every scrollback
\* length and scroll offset, the unified row recorded as the selection row
\* for a button press on display row m is the unified row whose contents
\* xdraw paints on display row m, and xdraw paints the pressed cell of that
\* display row as selected.
C33_MouseRendererAgree ==
  [][\A n \in ClickCells, m \in ClickCells :
       (/\ xevent_ButtonPress(1, XPx(n), YPx(m))
        /\ ViewInRange /\ m < xw.row /\ n < xw.col) =>
         LET frame == xdraw(State')
             recorded == UnifiedSource(term', term'.sel_start_row)
         IN /\ ~frame.ub
            /\ Len(frame.rows) > m
            /\ frame.rows[m + 1].from = recorded.from
            /\ frame.rows[m + 1].src_row = recorded.src_row
            /\ n \in frame.rows[m + 1].selected
    ]_vars

=============================================================================
